---- MODULE Spec2Model ----
(***************************************************************************)
(* notaforge: the enrichment pipeline of src/src/vocab_service.rs.         *)
(*                                                                         *)
(* build_vocabulary_card fetches a dictionary entry and Datamuse synonyms  *)
(* concurrently, merges the synonyms, translates every synonym, the term   *)
(* and the definition through translate_text, and assembles the card.      *)
(* translate_text walks an ordered list of Lingva mirrors; for each mirror *)
(* translate_with_base retries with a growing delay.                       *)
(*                                                                         *)
(* Strings are TLA+ strings.  A network request is a suspension point of   *)
(* the async code: a call that has sent a request is "awaiting" until the  *)
(* environment answers it, a call in tokio::time::sleep is "sleeping".     *)
(* Everything the code does between two suspension points is one step.     *)
(***************************************************************************)
EXTENDS Integers, Sequences, FiniteSets, TLC

(***************************************************************************)
(* Bounds of the model.                                                    *)
(***************************************************************************)
\* largest translate_retries explored for a stand-alone translate_text call
MaxRetries == 2
\* longest caller-supplied mirror list explored for a stand-alone call
MaxBases == 2
\* most words the synonym service returns in one answer
MaxWords == 1
\* longest synonym collection given to the merge on its own
MaxMergeLen == 2
\* longest term given to build_term_tag
MaxTermLen == 4
\* longest extra_tags and translation_bases list of a config file
MaxConfigList == 2
\* most meanings of a dictionary entry, and most definitions of a meaning,
\* in the answers given to fetch_dictionary_entry on its own
MaxMeanings == 2
MaxDefinitions == 2

(***************************************************************************)
(* Program constants.                                                      *)
(***************************************************************************)
\* vocab_service.rs:12-16
DEFAULT_TRANSLATE_BASES ==
    << "https://lingva.ml/api/v1",
       "https://lingva.garudalinux.org/api/v1",
       "https://translate.plausible.stream/api/v1" >>

\* vocab_service.rs:278  backoff_ms.max(200)
MinDelayMs == 200

(***************************************************************************)
(* String helpers (std::str).                                              *)
(***************************************************************************)
\* char::is_whitespace restricted to the characters the model uses
IsWhitespace(ch) == ch \in {" ", "\t", "\n"}

\* variant: is_empty() without the trim
IsBlankEmptyOnly(s) == s = ""

\* str::trim().is_empty(): every character is whitespace
IsBlank(s) == \A i \in 1..Len(s) : IsWhitespace(SubSeq(s, i, i))

RECURSIVE TrimEndSlash(_)
\* str::trim_end_matches('/')
TrimEndSlash(s) ==
    IF Len(s) > 0 /\ SubSeq(s, Len(s), Len(s)) = "/"
    THEN TrimEndSlash(SubSeq(s, 1, Len(s) - 1))
    ELSE s

Max(a, b) == IF a >= b THEN a ELSE b

\* variant: the grown delay is truncated
GrowDelayTruncated(delay) == (3 * delay) \div 2

\* (delay as f64 * 1.5).round() as u64: round half away from zero
GrowDelay(delay) == (3 * delay + 1) \div 2

\* the characters of the model's strings in code point order
Ascii == " ,./:@ABCDEFGHIJKLMNOPQRSTUVWXYZabcdefghijklmnopqrstuvwxyz"

CharAt(s, i) == SubSeq(s, i, i)

CodePoint(ch) == CHOOSE i \in 1..Len(Ascii) : CharAt(Ascii, i) = ch

RECURSIVE StrLess(_, _)
\* Ord for String: lexicographic by code point, a proper prefix is smaller
StrLess(a, b) ==
    IF Len(b) = 0 THEN FALSE
    ELSE IF Len(a) = 0 THEN TRUE
    ELSE IF CharAt(a, 1) = CharAt(b, 1)
         THEN StrLess(SubSeq(a, 2, Len(a)), SubSeq(b, 2, Len(b)))
         ELSE CodePoint(CharAt(a, 1)) < CodePoint(CharAt(b, 1))

\* variant: only the start of the string is compared (str::starts_with)
ContainsAtStart(s, sub) == SubSeq(s, 1, Len(sub)) = sub

\* str::contains
Contains(s, sub) ==
    \E i \in 1..(Len(s) - Len(sub) + 1) : SubSeq(s, i, i + Len(sub) - 1) = sub

RECURSIVE Join(_, _)
\* [String]::join(sep)
Join(seq, sep) ==
    IF seq = << >> THEN ""
    ELSE IF Len(seq) = 1 THEN seq[1]
    ELSE seq[1] \o sep \o Join(Tail(seq), sep)

SeqToSet(seq) == {seq[i] : i \in 1..Len(seq)}

RECURSIVE Ascending(_)
\* the numbers of a set in ascending order
Ascending(S) ==
    IF S = {} THEN << >>
    ELSE LET m == CHOOSE x \in S : \A y \in S : x <= y
         IN  <<m>> \o Ascending(S \ {m})

RECURSIVE BTreeSetIter(_)
\* BTreeSet<String>::into_iter().collect(): the elements in ascending order
BTreeSetIter(set) ==
    IF set = {} THEN << >>
    ELSE LET m == CHOOSE x \in set : \A y \in set \ {x} : StrLess(x, y)
         IN  <<m>> \o BTreeSetIter(set \ {m})

(***************************************************************************)
(* Option<String> and Result values.                                       *)
(***************************************************************************)
Some(v) == [some |-> TRUE, val |-> v]
None == [some |-> FALSE, val |-> ""]
\* Option::unwrap_or_default
UnwrapOrDefault(opt) == IF opt.some THEN opt.val ELSE ""

Ok(v) == [ok |-> TRUE, val |-> v]
Err == [ok |-> FALSE, val |-> ""]
NoResult == [ok |-> FALSE, val |-> "<pending>"]

(***************************************************************************)
(* The environment: what a mirror can answer to one request.               *)
(***************************************************************************)
\* the non-blank translation a mirror gives for a text
Tr(base, text) == text \o "@" \o base

\* every outcome of client.get(&url).send().await followed by the body read
Outcomes(base, text) ==
    { [kind |-> "transport_error", translation |-> ""],
      [kind |-> "rate_limited", translation |-> ""],
      [kind |-> "status_error", translation |-> ""],
      [kind |-> "parse_error", translation |-> ""] }
    \cup { [kind |-> "ok", translation |-> t] : t \in {"", " ", Tr(base, text)} }


(***************************************************************************)
(* fetch_dictionary_entry and fetch_datamuse_synonyms (143-205, 328-336).  *)
(***************************************************************************)
\* #[derive(Default)] DictionaryData
DefaultDictionaryData ==
    [pronunciation |-> None, part_of_speech |-> None, definition |-> None,
     example |-> None, synonyms |-> << >>]

\* Iterator::find_map over Option<String> values
RECURSIVE FirstSome(_)
FirstSome(opts) ==
    IF opts = << >> THEN None
    ELSE IF opts[1].some THEN opts[1]
    ELSE FirstSome(Tail(opts))

RECURSIVE FindMeaningWithText(_)
\* variant: the first meaning with a definition whose text is not empty
FindMeaningWithText(meanings) ==
    IF meanings = << >> THEN [found |-> FALSE]
    ELSE IF \E i \in 1..Len(meanings[1].definitions) :
                meanings[1].definitions[i].definition # ""
         THEN [found |-> TRUE, meaning |-> meanings[1]]
    ELSE FindMeaningWithText(Tail(meanings))

\* Iterator::find(|meaning| !meaning.definitions.is_empty())
RECURSIVE FindMeaning(_)
FindMeaning(meanings) ==
    IF meanings = << >> THEN [found |-> FALSE]
    ELSE IF meanings[1].definitions # << >>
         THEN [found |-> TRUE, meaning |-> meanings[1]]
    ELSE FindMeaning(Tail(meanings))

\* collect_synonyms(definitions, base_synonyms)
collect_synonyms(definitions, base_synonyms) ==
    BTreeSetIter(SeqToSet(base_synonyms)
                 \cup UNION {SeqToSet(definitions[i].synonyms) :
                                i \in 1..Len(definitions)})

\* variant: an entry whose meanings have no definitions still gives a record
fetch_dictionary_entryLenient(resp) ==
    IF resp.kind # "ok" THEN [ok |-> FALSE, val |-> DefaultDictionaryData]
    ELSE IF resp.entries = << >> THEN [ok |-> FALSE, val |-> DefaultDictionaryData]
    ELSE
      LET entry == resp.entries[1]
          pronunciation ==
              IF entry.phonetic.some THEN entry.phonetic
              ELSE FirstSome(entry.phonetics)
          found == FindMeaning(entry.meanings)
      IN  IF ~found.found
          THEN [ok |-> TRUE,
                val |-> [DefaultDictionaryData EXCEPT !.pronunciation = pronunciation]]
          ELSE
            LET definitions == found.meaning.definitions
                definition ==
                    FirstSome([i \in 1..Len(definitions) |->
                        IF definitions[i].definition # ""
                        THEN Some(definitions[i].definition) ELSE None])
                example ==
                    FirstSome([i \in 1..Len(definitions) |-> definitions[i].example])
            IN  [ok |-> TRUE,
                 val |-> [pronunciation |-> pronunciation,
                          part_of_speech |-> found.meaning.part_of_speech,
                          definition |-> definition,
                          example |-> example,
                          synonyms |-> collect_synonyms(definitions,
                                                        found.meaning.synonyms)]]

\* fetch_dictionary_entry on the answer of the dictionary service
fetch_dictionary_entry(resp) ==
    IF resp.kind # "ok" THEN [ok |-> FALSE, val |-> DefaultDictionaryData]
    ELSE IF resp.entries = << >> THEN [ok |-> FALSE, val |-> DefaultDictionaryData]
    ELSE
      LET entry == resp.entries[1]
          pronunciation ==
              IF entry.phonetic.some THEN entry.phonetic
              ELSE FirstSome(entry.phonetics)
          found == FindMeaning(entry.meanings)
      IN  IF ~found.found THEN [ok |-> FALSE, val |-> DefaultDictionaryData]
          ELSE
            LET definitions == found.meaning.definitions
                definition ==
                    FirstSome([i \in 1..Len(definitions) |->
                        IF definitions[i].definition # ""
                        THEN Some(definitions[i].definition) ELSE None])
                example ==
                    FirstSome([i \in 1..Len(definitions) |-> definitions[i].example])
            IN  [ok |-> TRUE,
                 val |-> [pronunciation |-> pronunciation,
                          part_of_speech |-> found.meaning.part_of_speech,
                          definition |-> definition,
                          example |-> example,
                          synonyms |-> collect_synonyms(definitions,
                                                        found.meaning.synonyms)]]

\* fetch_datamuse_synonyms on the answer of the synonym service
fetch_datamuse_synonyms(resp) ==
    IF resp.kind # "ok" THEN [ok |-> FALSE, val |-> << >>]
    ELSE [ok |-> TRUE, val |-> resp.words]

(***************************************************************************)
(* The environment: answers of the dictionary and the synonym service.     *)
(***************************************************************************)
Definition(definition, example, synonyms) ==
    [definition |-> definition, example |-> example, synonyms |-> synonyms]
Meaning(part_of_speech, definitions, synonyms) ==
    [part_of_speech |-> part_of_speech, definitions |-> definitions,
     synonyms |-> synonyms]
DictionaryEntry(phonetic, phonetics, meanings) ==
    [phonetic |-> phonetic, phonetics |-> phonetics, meanings |-> meanings]

FailedResponses ==
    { [kind |-> k, entries |-> << >>, words |-> << >>] :
        k \in {"transport_error", "status_error", "parse_error"} }

DictionaryBodies ==
    { << >>,
      \* a full entry; its synonym is listed twice
      << DictionaryEntry(Some("/hapi/"), << >>,
            << Meaning(Some("adjective"),
                  << Definition("feeling joy", Some("I am happy today."),
                                <<"joyful">>) >>,
                  <<"joyful">>) >>) >>,
      \* first meaning without definitions, second with an empty definition
      \* text and an example that does not contain the term
      << DictionaryEntry(None, << None, Some("/h/") >>,
            << Meaning(Some("noun"), << >>, <<"merry">>),
               Meaning(None,
                  << Definition("", None, << >>),
                     Definition("", Some("A joyful day."), << >>) >>,
                  << >>) >>) >>,
      \* a whitespace-only definition text
      << DictionaryEntry(None, << >>,
            << Meaning(Some("adjective"),
                  << Definition(" ", None, << >>) >>, << >>) >>) >>,
      \* no meaning has a definition
      << DictionaryEntry(Some("/hapi/"), << >>,
            << Meaning(Some("adjective"), << >>, <<"joyful">>) >>) >> }

DictionaryResponses ==
    FailedResponses
    \cup { [kind |-> "ok", entries |-> b, words |-> << >>] : b \in DictionaryBodies }

\* the words the synonym service can return
WordPool == <<"glad", "cheerful", "content", "merry">>

RECURSIVE SeqsUpTo(_, _)
\* the sequences over S of length at most n
SeqsUpTo(S, n) ==
    IF n = 0 THEN { << >> }
    ELSE SeqsUpTo(S, n - 1)
         \cup { Append(q, x) : q \in { p \in SeqsUpTo(S, n - 1) : Len(p) = n - 1 },
                               x \in S }

DatamuseResponses ==
    FailedResponses
    \cup { [kind |-> "ok", entries |-> << >>, words |-> w] :
            w \in SeqsUpTo({WordPool[i] : i \in 1..MaxWords} \cup {""}, MaxWords) }

(***************************************************************************)
(* State.                                                                  *)
(***************************************************************************)
VARIABLES
    calls,   \* the translate_text futures: call id -> arguments, position, locals
    net,     \* the requests in flight to translation mirrors
    hist,    \* history of the stand-alone call: requests and results per mirror
    build,   \* build_vocabulary_card: arguments, position, locals, return value
    fetches, \* the requests in flight to the dictionary and synonym services
    pure     \* a function called on its own: its name, its input, its output

vars == <<calls, net, hist, build, fetches, pure>>

\* no function is being called on its own
NoPure == [op |-> "none"]

\* call ids: 1..MaxSynonyms are the per-synonym calls of a build, then come
\* the term call, the definition call and a translate_text call made on its own
MaxSynonyms == MaxWords + 1
TermCall == MaxSynonyms + 1
UsageCall == MaxSynonyms + 2
SoloCall == MaxSynonyms + 3
CallIds == 1..SoloCall

(***************************************************************************)
(* translate_text and translate_with_base (vocab_service.rs:207-326).      *)
(***************************************************************************)
\* a future that has not been created
IdleCall ==
    [pc |-> "idle", text |-> "", bases |-> << >>, retries |-> 0, backoff |-> 0,
     cands |-> << >>, idx |-> 0, attempt |-> 0, delay |-> 0, result |-> NoResult]

\* translate_text(client, text, .., translate_bases, retries, backoff_ms):
\* the future is created but not yet polled
Called(text, bases, retries, backoff) ==
    [IdleCall EXCEPT !.pc = "called", !.text = text, !.bases = bases,
                     !.retries = retries, !.backoff = backoff]

\* variant: the built-in mirrors are always tried after the caller's
BaseCandidatesAppendDefaults(translate_bases) ==
    translate_bases \o DEFAULT_TRANSLATE_BASES

\* vocab_service.rs:220-227  the effective mirror list
BaseCandidates(translate_bases) ==
    IF translate_bases = << >> THEN DEFAULT_TRANSLATE_BASES ELSE translate_bases

\* translate_text returns res; its locals are dropped
Done(call, res) ==
    [call EXCEPT !.pc = "done", !.idx = 0, !.attempt = 0, !.delay = 0,
                 !.result = res]

RECURSIVE TryBaseKeepRetryState(_, _)
\* variant: attempt and delay are kept from one mirror to the next
TryBaseKeepRetryState(call, i) ==
    IF i > Len(call.cands) THEN Done(call, Ok(""))
    ELSE IF IsBlank(call.text) THEN TryBaseKeepRetryState(call, i + 1)
    ELSE [call EXCEPT !.pc = "awaiting", !.idx = i,
                      !.delay = Max(@, Max(call.backoff, MinDelayMs))]

RECURSIVE TryBase(_, _)
\* the for loop of translate_text reaches candidate i (229) and
\* translate_with_base runs up to its first request (259-281)
TryBase(call, i) ==
    IF i > Len(call.cands) THEN Done(call, Ok(""))
    ELSE IF IsBlank(call.text) THEN TryBase(call, i + 1)
    ELSE [call EXCEPT !.pc = "awaiting", !.idx = i, !.attempt = 0,
                      !.delay = Max(call.backoff, MinDelayMs)]

\* variant: an internal error of a mirror is returned to the caller
WithBaseReturnPropagate(call, res) ==
    IF ~res.ok THEN Done(call, Err)
    ELSE IF ~IsBlank(res.val) THEN Done(call, Ok(res.val))
    ELSE TryBase(call, call.idx + 1)

\* variant: any non-empty translation, blank or not, ends the mirror loop
WithBaseReturnNonEmpty(call, res) ==
    IF res.ok /\ res.val # "" THEN Done(call, Ok(res.val))
    ELSE TryBase(call, call.idx + 1)

\* the match on translate_with_base's result (241-244)
WithBaseReturn(call, res) ==
    IF res.ok /\ ~IsBlank(res.val) THEN Done(call, Ok(res.val))
    ELSE TryBase(call, call.idx + 1)

\* first poll of translate_text: blank check, mirror list, first request
TranslateText(call) ==
    IF IsBlank(call.text) THEN Done(call, Ok(""))
    ELSE TryBase([call EXCEPT !.cands = BaseCandidates(call.bases)], 1)

Retry == [retry |-> TRUE, res |-> NoResult]
Return(res) == [retry |-> FALSE, res |-> res]

\* variant: the retry test of the 429 branch is off by one
WithBaseStepOffByOne(call, o) ==
    CASE o.kind = "rate_limited" ->
            IF call.attempt <= call.retries THEN Retry ELSE Return(Ok(""))
      [] o.kind = "ok" -> Return(Ok(o.translation))
      [] o.kind = "parse_error" -> Return(Err)
      [] o.kind = "status_error" ->
            IF call.attempt < call.retries THEN Retry ELSE Return(Err)
      [] o.kind = "transport_error" ->
            IF call.attempt < call.retries THEN Retry ELSE Return(Err)

\* variant: a body that does not parse is retried like a failed status
WithBaseStepRetryParse(call, o) ==
    CASE o.kind = "rate_limited" ->
            IF call.attempt < call.retries THEN Retry ELSE Return(Ok(""))
      [] o.kind = "ok" -> Return(Ok(o.translation))
      [] o.kind = "parse_error" ->
            IF call.attempt < call.retries THEN Retry ELSE Return(Err)
      [] o.kind = "status_error" ->
            IF call.attempt < call.retries THEN Retry ELSE Return(Err)
      [] o.kind = "transport_error" ->
            IF call.attempt < call.retries THEN Retry ELSE Return(Err)

\* variant: an empty translation is retried like a 429
WithBaseStepRetryEmpty(call, o) ==
    CASE o.kind = "rate_limited" ->
            IF call.attempt < call.retries THEN Retry ELSE Return(Ok(""))
      [] o.kind = "ok" ->
            IF o.translation = "" /\ call.attempt < call.retries THEN Retry
            ELSE Return(Ok(o.translation))
      [] o.kind = "parse_error" -> Return(Err)
      [] o.kind = "status_error" ->
            IF call.attempt < call.retries THEN Retry ELSE Return(Err)
      [] o.kind = "transport_error" ->
            IF call.attempt < call.retries THEN Retry ELSE Return(Err)

\* variant: a transport failure is retried once more than the others
WithBaseStepExtraTransportRetry(call, o) ==
    CASE o.kind = "rate_limited" ->
            IF call.attempt < call.retries THEN Retry ELSE Return(Ok(""))
      [] o.kind = "ok" -> Return(Ok(o.translation))
      [] o.kind = "parse_error" -> Return(Err)
      [] o.kind = "status_error" ->
            IF call.attempt < call.retries THEN Retry ELSE Return(Err)
      [] o.kind = "transport_error" ->
            IF call.attempt <= call.retries THEN Retry ELSE Return(Err)

\* variant: a status other than 429 is not retried
WithBaseStepNoStatusRetry(call, o) ==
    CASE o.kind = "rate_limited" ->
            IF call.attempt < call.retries THEN Retry ELSE Return(Ok(""))
      [] o.kind = "ok" -> Return(Ok(o.translation))
      [] o.kind = "parse_error" -> Return(Err)
      [] o.kind = "status_error" -> Return(Err)
      [] o.kind = "transport_error" ->
            IF call.attempt < call.retries THEN Retry ELSE Return(Err)

\* one pass of the loop body of translate_with_base on a response (282-324)
WithBaseStep(call, o) ==
    CASE o.kind = "rate_limited" ->
            IF call.attempt < call.retries THEN Retry ELSE Return(Ok(""))
      [] o.kind = "ok" -> Return(Ok(o.translation))
      [] o.kind = "parse_error" -> Return(Err)
      [] o.kind = "status_error" ->
            IF call.attempt < call.retries THEN Retry ELSE Return(Err)
      [] o.kind = "transport_error" ->
            IF call.attempt < call.retries THEN Retry ELSE Return(Err)

\* the call resumes with the response to its request
OnResponse(call, o) ==
    LET s == WithBaseStep(call, o)
    IN  IF s.retry THEN [call EXCEPT !.pc = "sleeping"]
        ELSE WithBaseReturn(call, s.res)

\* the sleep ends: attempt += 1; delay grows; continue to the next send
OnWake(call) ==
    [call EXCEPT !.pc = "awaiting", !.attempt = @ + 1, !.delay = GrowDelay(@)]

\* the request of line 281 for the call's current mirror
Request(c, call) ==
    [call |-> c, idx |-> call.idx, base |-> TrimEndSlash(call.cands[call.idx]),
     text |-> call.text]

\* variant: the remaining mirrors are raced
SendsRace(c, call) ==
    IF call.pc = "awaiting"
    THEN { [call |-> c, idx |-> i, base |-> TrimEndSlash(call.cands[i]),
            text |-> call.text] : i \in call.idx..Len(call.cands) }
    ELSE {}

\* the requests a call sends when it reaches the state `call`
Sends(c, call) == IF call.pc = "awaiting" THEN {Request(c, call)} ELSE {}

(***************************************************************************)
(* build_vocabulary_card (vocab_service.rs:18-141).                        *)
(* A world w is [calls, net, build]; the operators below run the build     *)
(* from one suspension point to the next.                                  *)
(***************************************************************************)
NoBuild ==
    [pc |-> "none", term |-> "", source_lang |-> "", target_lang |-> "",
     translate_bases |-> << >>, translate_retries |-> 0,
     translate_backoff_ms |-> 0,
     dictionary_resp |-> [kind |-> "none", entries |-> << >>, words |-> << >>],
     dictionary_res |-> [ok |-> FALSE, val |-> DefaultDictionaryData],
     datamuse_res |-> [ok |-> FALSE, val |-> << >>],
     fetched |-> {}, dictionary |-> DefaultDictionaryData, synonyms |-> << >>,
     completed |-> << >>, translated_synonyms |-> "", definition_text |-> "",
     ret |-> NoResult]

\* translate_text(..) futures for the given texts are created and polled once
StartCalls(w, ids, texts) ==
    LET b == w.build
        started == [k \in 1..Len(ids) |->
                      TranslateText(Called(texts[k],
                                           BaseCandidates(b.translate_bases),
                                           b.translate_retries,
                                           b.translate_backoff_ms))]
    IN  [w EXCEPT
           !.calls = [c \in DOMAIN @ |->
                        IF \E k \in 1..Len(ids) : ids[k] = c
                        THEN started[CHOOSE k \in 1..Len(ids) : ids[k] = c]
                        ELSE @[c]],
           !.net = @ \cup UNION {Sends(ids[k], started[k]) : k \in 1..Len(ids)}]

\* variant: a join that completes with its first future
AnyDone(w, ids) == \E c \in ids : w.calls[c].pc = "done"

\* futures::future::join_all / tokio::join!: every future has completed
AllDone(w, ids) == \A c \in ids : w.calls[c].pc = "done"

\* variant: the outputs in the order of completion (FuturesUnordered)
JoinAllUnordered(futures, n, completed) ==
    [i \in 1..n |-> futures[completed[i]].result]

\* futures::future::join_all: the outputs in the order of the inputs
JoinAll(futures, n, completed) == [i \in 1..n |-> futures[i].result]

\* variant: the translation is used as it comes, empty or not
OrOriginalNoFallback(result, original) == result.val

\* the fallback of lines 70-73, 103-112
OrOriginal(result, original) ==
    IF result.ok /\ ~IsBlank(result.val) THEN result.val ELSE original

\* lines 103-140: both translations are in, the card is assembled
Finish(w) ==
    LET b == w.build
        translation == OrOriginal(w.calls[TermCall].result, b.term)
        translated_usage == OrOriginal(w.calls[UsageCall].result, b.definition_text)
        example_sentence ==
            IF b.dictionary.example.some THEN b.dictionary.example.val
            ELSE "This sentence uses the word " \o b.term \o "."
        highlight == IF Contains(example_sentence, b.term) THEN b.term ELSE ""
        card == [term |-> b.term,
                 pronunciation |-> UnwrapOrDefault(b.dictionary.pronunciation),
                 part_of_speech |-> UnwrapOrDefault(b.dictionary.part_of_speech),
                 example |-> [sentence |-> example_sentence,
                              highlight |-> highlight],
                 translation_heading |-> translation,
                 translation_synonyms |-> b.translated_synonyms,
                 translation_usage |-> translated_usage,
                 extra_tags |-> <<b.source_lang, b.target_lang, "auto-generated">>]
    IN  [w EXCEPT !.build.pc = "done", !.build.ret = Ok(card)]

\* lines 78-101: the term and the definition are translated together
TranslateTermAndUsage(w) ==
    LET b == w.build
        definition_text ==
            IF b.dictionary.definition.some THEN b.dictionary.definition.val
            ELSE "No definition found for " \o b.term \o "."
        w1 == [w EXCEPT !.build.definition_text = definition_text,
                        !.build.pc = "term_usage"]
        w2 == StartCalls(w1, <<TermCall, UsageCall>>, <<b.term, definition_text>>)
    IN  IF AllDone(w2, {TermCall, UsageCall}) THEN Finish(w2) ELSE w2

\* lines 66-76: join_all has all results, each is paired with its synonym
CollectSynonyms(w) ==
    LET b == w.build
        n == Len(b.synonyms)
        results == JoinAll(w.calls, n, b.completed)
        translated == [i \in 1..n |-> OrOriginal(results[i], b.synonyms[i])]
    IN  TranslateTermAndUsage(
            [w EXCEPT !.build.translated_synonyms = Join(translated, ", ")])

\* variant: the synonym service's words are appended to a Vec
MergeSynonymsAppend(dictionary_synonyms, datamuse_synonyms) ==
    dictionary_synonyms \o datamuse_synonyms

\* lines 33-36: the dictionary's synonyms are collected into a BTreeSet, the
\* synonym service's words are added, the set is read back in order
MergeSynonyms(dictionary_synonyms, datamuse_synonyms) ==
    BTreeSetIter(SeqToSet(dictionary_synonyms) \cup SeqToSet(datamuse_synonyms))

\* lines 32-66: phase 1 is joined, the synonyms are merged and translated
MergeAndTranslateSynonyms(w) ==
    LET b == w.build
        dictionary == b.dictionary_res.val
        synonyms == MergeSynonyms(dictionary.synonyms, b.datamuse_res.val)
        n == Len(synonyms)
        w1 == [w EXCEPT !.build.dictionary = dictionary,
                        !.build.synonyms = synonyms,
                        !.build.pc = "synonyms"]
    IN  IF Join(synonyms, ", ") = "" THEN TranslateTermAndUsage(w1)
        ELSE LET w2 == StartCalls(w1, [i \in 1..n |-> i], synonyms)
                 w3 == [w2 EXCEPT !.build.completed =
                           Ascending({i \in 1..n : w2.calls[i].pc = "done"})]
             IN  IF AllDone(w3, 1..n) THEN CollectSynonyms(w3) ELSE w3

\* the build resumes after a translate_text call has made a step
Resume(w, c) ==
    LET b == w.build
        w1 == IF b.pc = "synonyms" /\ w.calls[c].pc = "done"
              THEN [w EXCEPT !.build.completed = Append(@, c)]
              ELSE w
    IN  IF b.pc = "synonyms" /\ AllDone(w1, 1..Len(b.synonyms))
        THEN CollectSynonyms(w1)
        ELSE IF b.pc = "term_usage" /\ AllDone(w1, {TermCall, UsageCall})
        THEN Finish(w1)
        ELSE w1


(***************************************************************************)
(* History of the stand-alone call.                                        *)
(***************************************************************************)
\* sentTo[i]: requests sent to candidate i; all429[i]: every answer of
\* candidate i so far was HTTP 429; wb[i]: what translate_with_base returned
\* for candidate i; urls: the mirrors requested, in the order of first request
\* what is remembered of a mirror's last answer: a valid payload, a body that
\* does not parse, or a failure (429, another status, no response)
AnswerClass(o) ==
    IF o.kind \in {"ok", "parse_error"} THEN o.kind ELSE "failure"

NoHist ==
    [sentTo |-> << >>, all429 |-> << >>, wb |-> << >>, urls |-> << >>,
     allErr |-> << >>, answered |-> << >>, last |-> << >>, slept |-> << >>]

HistStart(call) ==
    [sentTo |-> [i \in 1..Len(call.cands) |-> 0],
     all429 |-> [i \in 1..Len(call.cands) |-> TRUE],
     wb     |-> [i \in 1..Len(call.cands) |-> NoResult],
     urls   |-> << >>,
     allErr |-> [i \in 1..Len(call.cands) |-> TRUE],
     answered |-> [i \in 1..Len(call.cands) |-> 0],
     last   |-> [i \in 1..Len(call.cands) |-> "none"],
     slept  |-> [i \in 1..Len(call.cands) |-> << >>]]

RECURSIVE HistSend(_, _)
HistSend(h, reqs) ==
    IF reqs = {} THEN h
    ELSE LET r == CHOOSE x \in reqs : \A y \in reqs : x.idx <= y.idx
         IN  HistSend([h EXCEPT !.sentTo[r.idx] = @ + 1,
                                !.urls = IF h.sentTo[r.idx] = 0
                                         THEN Append(@, r.base) ELSE @],
                      reqs \ {r})

HistResponse(h, call, o) ==
    LET s == WithBaseStep(call, o)
        i == call.idx
    IN  [h EXCEPT !.all429[i] = @ /\ o.kind = "rate_limited",
                  !.wb[i] = IF s.retry THEN @ ELSE s.res,
                  !.allErr[i] = @ /\ o.kind \in {"status_error", "transport_error"},
                  !.answered[i] = @ + 1,
                  !.last[i] = AnswerClass(o),
                  !.slept[i] = IF s.retry THEN Append(@, call.delay) ELSE @]

(***************************************************************************)
(* Steps of a translate_text call.                                         *)
(***************************************************************************)
\* the world after call c has moved to nc, having consumed the requests gone
Stepped(c, nc, gone) ==
    Resume([calls |-> [calls EXCEPT ![c] = nc],
            net   |-> (net \ gone) \cup Sends(c, nc),
            build |-> build], c)

\* the executor polls a created future for the first time
Poll(c) ==
    /\ calls[c].pc = "called"
    /\ LET nc == TranslateText(calls[c])
           w  == Stepped(c, nc, {})
       IN  /\ calls' = w.calls
           /\ net' = w.net
           /\ build' = w.build
           /\ hist' = IF c = SoloCall THEN HistSend(HistStart(nc), Sends(c, nc))
                      ELSE hist
    /\ UNCHANGED <<fetches, pure>>

\* a mirror answers the request r and the call runs to its next await
Respond(c) ==
    /\ calls[c].pc = "awaiting"
    /\ \E r \in net :
        /\ r.call = c
        /\ \E o \in Outcomes(r.base, r.text) :
            LET nc == OnResponse(calls[c], o)
                w  == Stepped(c, nc, {r})
            IN  /\ calls' = w.calls
                /\ net' = w.net
                /\ build' = w.build
                /\ hist' = IF c = SoloCall
                           THEN HistSend(HistResponse(hist, calls[c], o), Sends(c, nc))
                           ELSE hist
    /\ UNCHANGED <<fetches, pure>>

\* tokio::time::sleep(delay) completes
Wake(c) ==
    /\ calls[c].pc = "sleeping"
    /\ LET nc == OnWake(calls[c])
           w  == Stepped(c, nc, {})
       IN  /\ calls' = w.calls
           /\ net' = w.net
           /\ build' = w.build
           /\ hist' = IF c = SoloCall THEN HistSend(hist, Sends(c, nc)) ELSE hist
    /\ UNCHANGED <<fetches, pure>>

(***************************************************************************)
(* Steps of build_vocabulary_card.                                         *)
(***************************************************************************)
\* variant: the build goes on as soon as one of the fetches has completed
Phase1Selected(outstanding) == outstanding # {"dictionary", "datamuse"}

\* tokio::join!(..) of lines 27-30 is complete when no fetch is outstanding
Phase1Joined(outstanding) == outstanding = {}

\* first poll of the build: both fetches send their request (27-30)
BuildStart ==
    /\ build.pc = "called"
    /\ build' = [build EXCEPT !.pc = "fetching"]
    /\ fetches' = {"dictionary", "datamuse"}
    /\ UNCHANGED <<calls, net, hist, pure>>

\* variant: a failed fetch fails the build (dictionary_res?, datamuse_res?)
FetchedOrFail(b, outstanding) ==
    IF b.pc = "fetching" /\ Phase1Joined(outstanding)
    THEN IF b.dictionary_res.ok /\ b.datamuse_res.ok
         THEN MergeAndTranslateSynonyms([calls |-> calls, net |-> net, build |-> b])
         ELSE [calls |-> calls, net |-> net,
               build |-> [b EXCEPT !.pc = "done", !.ret = Err]]
    ELSE [calls |-> calls, net |-> net, build |-> b]

\* the build after one of the two fetches has completed
Fetched(b, outstanding) ==
    IF b.pc = "fetching" /\ Phase1Joined(outstanding)
    THEN MergeAndTranslateSynonyms([calls |-> calls, net |-> net, build |-> b])
    ELSE [calls |-> calls, net |-> net, build |-> b]

\* the dictionary service answers
DictionaryResponds ==
    /\ "dictionary" \in fetches
    /\ \E resp \in DictionaryResponses :
        LET w == Fetched([build EXCEPT !.dictionary_resp = resp,
                                       !.dictionary_res = fetch_dictionary_entry(resp),
                                       !.fetched = @ \cup {"dictionary"}],
                         fetches \ {"dictionary"})
        IN  /\ calls' = w.calls
            /\ net' = w.net
            /\ build' = w.build
    /\ fetches' = fetches \ {"dictionary"}
    /\ UNCHANGED <<hist, pure>>

\* the synonym service answers
DatamuseResponds ==
    /\ "datamuse" \in fetches
    /\ \E resp \in DatamuseResponses :
        LET w == Fetched([build EXCEPT !.datamuse_res = fetch_datamuse_synonyms(resp),
                                       !.fetched = @ \cup {"datamuse"}],
                         fetches \ {"datamuse"})
        IN  /\ calls' = w.calls
            /\ net' = w.net
            /\ build' = w.build
    /\ fetches' = fetches \ {"datamuse"}
    /\ UNCHANGED <<hist, pure>>

(***************************************************************************)
(* Specifications.                                                         *)
(***************************************************************************)
\* inputs of a build
Terms == {"happy", " "}
CustomBases == <<"https://a.example/api", "https://b.example/api/",
                 "https://lingva.ml/api/v1">>
BuildBaseLists == { << >>, <<CustomBases[1]>> }
BackoffValues == {0, 501}
BuildRetries == {0, 1}

\* a build: build_vocabulary_card has been called by main
Init ==
    /\ pure = NoPure
    /\ calls = [c \in CallIds |-> IdleCall]
    /\ net = {}
    /\ hist = NoHist
    /\ fetches = {}
    /\ \E term \in Terms, bases \in BuildBaseLists, retries \in BuildRetries :
         build = [NoBuild EXCEPT !.pc = "called", !.term = term,
                                 !.source_lang = "en", !.target_lang = "ru",
                                 !.translate_bases = bases,
                                 !.translate_retries = retries,
                                 !.translate_backoff_ms = 500]

Next ==
    \/ BuildStart
    \/ DictionaryResponds
    \/ DatamuseResponds
    \/ \E c \in CallIds : Respond(c)
    \/ \E c \in CallIds : Wake(c)

Spec == Init /\ [][Next]_vars

\* inputs of a translate_text call made on its own
Texts == {"", " ", " \t\n", "hi"}
BaseLists == SeqsUpTo({CustomBases[i] : i \in 1..Len(CustomBases)}, MaxBases)

InitTranslate ==
    /\ pure = NoPure
    /\ net = {}
    /\ hist = NoHist
    /\ fetches = {}
    /\ build = NoBuild
    /\ \E text \in Texts, bases \in BaseLists, retries \in 0..MaxRetries,
          backoff \in BackoffValues :
         calls = [c \in CallIds |->
                    IF c = SoloCall THEN Called(text, bases, retries, backoff)
                    ELSE IdleCall]

NextTranslate ==
    \/ Poll(SoloCall)
    \/ Respond(SoloCall)
    \/ Wake(SoloCall)

SpecTranslate == InitTranslate /\ [][NextTranslate]_vars

\* mirror lists of every length up to MaxBases
BaseListsByLength == { SubSeq(CustomBases, 1, n) : n \in 0..MaxBases }

InitTranslateFair ==
    /\ pure = NoPure
    /\ net = {}
    /\ hist = NoHist
    /\ fetches = {}
    /\ build = NoBuild
    /\ \E text \in Texts, bases \in BaseListsByLength, retries \in 0..MaxRetries,
          backoff \in BackoffValues :
         calls = [c \in CallIds |->
                    IF c = SoloCall THEN Called(text, bases, retries, backoff)
                    ELSE IdleCall]

\* every request is answered or fails, and every sleep ends
SpecTranslateFair ==
    InitTranslateFair /\ [][NextTranslate]_vars /\ WF_vars(NextTranslate)

(***************************************************************************)
(* The synonym merge on its own: lines 27-36 with arbitrary collections.   *)
(***************************************************************************)
MergePool == {"glad", "joyful", "cheerful", "Zeal", "gladly"}

InitMerge ==
    /\ calls = [c \in CallIds |-> IdleCall]
    /\ net = {}
    /\ hist = NoHist
    /\ fetches = {}
    /\ build = NoBuild
    /\ \E a \in SeqsUpTo(MergePool, MaxMergeLen), b \in SeqsUpTo(MergePool, MaxMergeLen) :
         pure = [op |-> "merge", dictionary |-> a, datamuse |-> b,
                 arrived |-> {}, first |-> "", joined |-> FALSE, synonyms |-> << >>]

\* one of the two fetches of tokio::join! completes
MergeArrive ==
    /\ pure.op = "merge"
    /\ \E f \in {"dictionary", "datamuse"} \ pure.arrived :
         pure' = [pure EXCEPT !.arrived = @ \cup {f},
                              !.first = IF pure.arrived = {} THEN f ELSE @]
    /\ UNCHANGED <<calls, net, hist, build, fetches>>

\* both have completed: lines 32-36
MergeJoin ==
    /\ pure.op = "merge"
    /\ pure.arrived = {"dictionary", "datamuse"}
    /\ ~pure.joined
    /\ pure' = [pure EXCEPT !.joined = TRUE,
                            !.synonyms = MergeSynonyms(pure.dictionary, pure.datamuse)]
    /\ UNCHANGED <<calls, net, hist, build, fetches>>

NextMerge == MergeArrive \/ MergeJoin

SpecMerge == InitMerge /\ [][NextMerge]_vars

\* C11: the merged synonym sequence is sorted, has no duplicates, holds
\* exactly the union of the two collections, and is the same with the two
\* collections exchanged and whichever fetch completed first.
C11_SynonymMerge ==
    (pure.op = "merge" /\ pure.joined) =>
        LET out == pure.synonyms
        IN  /\ \A i, j \in 1..Len(out) : i < j => StrLess(out[i], out[j])
            /\ SeqToSet(out) = SeqToSet(pure.dictionary) \cup SeqToSet(pure.datamuse)
            /\ out = MergeSynonyms(pure.datamuse, pure.dictionary)

\* C11 witness: joyful, glad from the dictionary and cheerful from the
\* synonym service, which answered first
C11_Witness ==
    /\ pure.op = "merge" /\ pure.joined
    /\ pure.first = "datamuse"
    /\ pure.dictionary = <<"joyful", "glad">>
    /\ pure.datamuse = <<"cheerful">>
    /\ pure.synonyms = <<"cheerful", "glad", "joyful">>

(***************************************************************************)
(* Properties of translate_text, checked under SpecTranslate.              *)
(***************************************************************************)
Solo == calls[SoloCall]

\* translate_with_base has returned for candidate i
Finished(i) == hist.wb[i] # NoResult

\* translate_with_base returned a translation with a non-whitespace character
NonBlank(i) == hist.wb[i].ok /\ ~IsBlank(hist.wb[i].val)

\* C1: translate_text never returns an error: whatever the mirrors answer,
\* a finished call holds Ok(string), and the string is empty when no mirror
\* produced a non-blank translation.
C1_TranslateNeverFails ==
    Solo.pc = "done" =>
        /\ Solo.result.ok
        /\ (\A i \in DOMAIN hist.wb : ~NonBlank(i)) => Solo.result.val = ""

\* C1 witness: the retries on the last mirror are exhausted by errors
C1_Witness ==
    /\ Solo.pc = "done"
    /\ Solo.retries >= 1
    /\ Len(Solo.cands) >= 2
    /\ hist.wb[Len(Solo.cands)] = Err
    /\ hist.sentTo[Len(Solo.cands)] = Solo.retries + 1
    /\ Solo.result = Ok("")

\* C3: a mirror that answers 429 on every attempt gets exactly retries + 1
\* requests, and translate_with_base then returns Ok("") for it.
C3_RateLimitedMirror ==
    \A i \in DOMAIN hist.wb :
        (Finished(i) /\ hist.all429[i]) =>
            /\ hist.sentTo[i] = Solo.retries + 1
            /\ hist.wb[i] = Ok("")

\* C3 witness: three requests to a mirror that always answers 429, retries = 2
C3_Witness ==
    /\ Solo.retries = 2
    /\ Len(hist.wb) >= 1
    /\ Finished(1) /\ hist.all429[1]
    /\ hist.sentTo[1] = 3
    /\ hist.wb[1] = Ok("")

\* C4 as stated: the first mirror whose translation is non-empty ends the
\* call with that translation and no later mirror gets a request.
C4_StopsAtFirstNonEmpty ==
    \A i \in DOMAIN hist.wb :
        (hist.wb[i].ok /\ hist.wb[i].val # "") =>
            /\ Solo.pc = "done"
            /\ Solo.result = Ok(hist.wb[i].val)
            /\ \A j \in DOMAIN hist.wb : j > i => hist.sentTo[j] = 0

\* C4 amended: mirrors are tried in list order; the first mirror whose
\* translation is non-blank ends the call with that translation and no later
\* mirror gets a request; a mirror that yields a blank translation or an
\* error is followed by the next mirror.
C4_StopsAtFirstNonBlank ==
    \A i \in DOMAIN hist.wb :
        /\ hist.sentTo[i] > 0 =>
              \A k \in 1..(i - 1) : Finished(k) /\ ~NonBlank(k)
        /\ NonBlank(i) =>
              /\ Solo.pc = "done"
              /\ Solo.result = Ok(hist.wb[i].val)
              /\ \A j \in DOMAIN hist.wb : j > i => hist.sentTo[j] = 0
        /\ (Finished(i) /\ ~NonBlank(i) /\ i < Len(hist.wb)) =>
              hist.sentTo[i + 1] > 0

\* C4 witness: the first mirror fails, the second gives a whitespace-only
\* translation, the third translates
C4_Witness ==
    /\ Solo.pc = "done"
    /\ Len(hist.wb) = 3
    /\ hist.wb[1] = Err
    /\ hist.wb[2] = Ok(" ")
    /\ NonBlank(3)
    /\ Solo.result = hist.wb[3]

\* C9: with an empty mirror list the requests go to the three built-in
\* mirrors in their declared order; with a non-empty list they go to the
\* caller's mirrors in the given order and to no other mirror.
C9_EffectiveMirrors ==
    LET given == [i \in 1..Len(Solo.bases) |-> TrimEndSlash(Solo.bases[i])]
        effective == IF Solo.bases = << >>
                     THEN << "https://lingva.ml/api/v1",
                             "https://lingva.garudalinux.org/api/v1",
                             "https://translate.plausible.stream/api/v1" >>
                     ELSE given
    IN  /\ Len(hist.urls) <= Len(effective)
        /\ hist.urls = SubSeq(effective, 1, Len(hist.urls))
        /\ \A r \in net : r.base = effective[r.idx]

\* C9 witness: an empty list, all three built-in mirrors were requested
C9_Witness ==
    /\ Solo.bases = << >>
    /\ Len(hist.urls) = 3
    /\ hist.urls[3] = "https://translate.plausible.stream/api/v1"

(***************************************************************************)
(* Properties of build_vocabulary_card, checked under Spec.                *)
(***************************************************************************)
SynonymCalls == 1..Len(build.synonyms)

Running(c) == calls[c].pc \in {"awaiting", "sleeping"}

PlaceholderDefinition == "No definition found for " \o build.term \o "."
PlaceholderExample == "This sentence uses the word " \o build.term \o "."

\* C2: build never fails outward: whatever fails among the dictionary fetch,
\* the synonym fetch and the translations, build returns Ok(card), and a
\* failed dependency is replaced by its default.
C2_BuildNeverFails ==
    build.pc = "done" =>
        /\ build.ret.ok
        /\ build.ret.val.term = build.term
        /\ ~build.dictionary_res.ok =>
              /\ build.ret.val.pronunciation = ""
              /\ build.ret.val.part_of_speech = ""
              /\ build.ret.val.example.sentence = PlaceholderExample
              /\ build.definition_text = PlaceholderDefinition
              /\ build.synonyms = BTreeSetIter(SeqToSet(build.datamuse_res.val))
        /\ ~build.datamuse_res.ok =>
              build.synonyms = build.dictionary_res.val.synonyms
        /\ (\A c \in {TermCall, UsageCall} : calls[c].result = Ok("")) =>
              /\ build.ret.val.translation_heading = build.term
              /\ build.ret.val.translation_usage = build.definition_text

\* C2 witness: both fetches failed and no translation was obtained
C2_Witness ==
    /\ build.pc = "done"
    /\ build.term = "happy"
    /\ ~build.dictionary_res.ok
    /\ ~build.datamuse_res.ok
    /\ calls[TermCall].result = Ok("")
    /\ calls[UsageCall].result = Ok("")
    /\ build.ret.ok

\* C5: within one translate_text call at most one request is in flight, it
\* is the request to the call's current mirror, and the call never goes
\* back to an earlier mirror, also while other calls of the build run.
C5_OneRequestInFlight ==
    [][ \A c \in CallIds :
          /\ Cardinality({r \in net' : r.call = c}) <= 1
          /\ \A r \in net' : r.call = c =>
                /\ calls'[c].pc = "awaiting"
                /\ r.idx = calls'[c].idx
          /\ (Running(c) /\ Running(c)') => calls'[c].idx >= calls[c].idx
          /\ (Running(c) /\ calls'[c].idx > calls[c].idx) =>
                /\ calls[c].pc = "awaiting"
                /\ calls'[c].attempt = 0
      ]_vars

\* C5 witness: two calls of one build are in flight at once, one of them on
\* its second mirror
C5_Witness ==
    \E c, d \in CallIds :
        /\ c # d
        /\ calls[c].pc = "awaiting" /\ calls[d].pc = "awaiting"
        /\ calls[c].idx = 1 /\ calls[d].idx = 2
        /\ Cardinality(net) = 2

\* the translations the mirrors of call i can give for the i-th synonym
TranslationsOf(i) ==
    { Tr(TrimEndSlash(calls[i].cands[k]), build.synonyms[i]) :
        k \in 1..Len(calls[i].cands) }

\* C6: the i-th entry of the joined translatedSynonyms is the translation or
\* the fallback of the i-th merged synonym, whatever the completion order.
C6_SynonymPairing ==
    (build.pc \in {"term_usage", "done"} /\ Join(build.synonyms, ", ") # "") =>
        LET entry(i) == IF calls[i].result = Ok("") THEN build.synonyms[i]
                        ELSE calls[i].result.val
        IN  /\ \A i \in SynonymCalls :
                  /\ calls[i].text = build.synonyms[i]
                  /\ calls[i].result = Ok("") \/ calls[i].result.val \in TranslationsOf(i)
            /\ build.translated_synonyms = Join([i \in SynonymCalls |-> entry(i)], ", ")

\* C6 witness: two synonyms were translated and the second completed first
C6_Witness ==
    /\ build.pc = "done"
    /\ Len(build.synonyms) = 2
    /\ build.completed = <<2, 1>>
    /\ \A i \in SynonymCalls : calls[i].result # Ok("")
    /\ build.ret.val.translation_synonyms = build.translated_synonyms

\* C7: both fetches are started together, each runs to completion whatever
\* happens to the other, and no translation starts before both completed.
C7_Phase1Joined ==
    /\ build.pc = "fetching" =>
          fetches \cup build.fetched = {"dictionary", "datamuse"}
    /\ build.pc \in {"synonyms", "term_usage", "done"} =>
          build.fetched = {"dictionary", "datamuse"}
    /\ (net # {} \/ \E c \in CallIds : calls[c].pc # "idle") =>
          /\ fetches = {}
          /\ build.fetched = {"dictionary", "datamuse"}

\* C7 witness: the dictionary fetch failed, the synonym fetch succeeded
\* after it, and the synonym translations are in flight
C7_Witness ==
    /\ build.pc = "synonyms"
    /\ ~build.dictionary_res.ok
    /\ build.datamuse_res.ok
    /\ net # {}

\* C8 as stated: the term and the definition translations are started with
\* the per-synonym translations and do not wait for them.
C8_TermUsageWithSynonyms ==
    (\E c \in 1..MaxSynonyms : Running(c)) =>
        /\ calls[TermCall].pc # "idle"
        /\ calls[UsageCall].pc # "idle"

\* C8 amended: the per-synonym translations run together and are all
\* complete before the term and the definition translations start; these
\* two then run together.
C8_SynonymsThenTermUsage ==
    /\ build.pc = "synonyms" =>
          /\ calls[TermCall].pc = "idle" /\ calls[UsageCall].pc = "idle"
          /\ \A c \in SynonymCalls : calls[c].pc # "idle"
    /\ (calls[TermCall].pc # "idle" \/ calls[UsageCall].pc # "idle") =>
          /\ calls[TermCall].pc # "idle" /\ calls[UsageCall].pc # "idle"
          /\ \A c \in 1..MaxSynonyms : calls[c].pc \in {"idle", "done"}
          /\ \A r \in net : r.call \in {TermCall, UsageCall}

\* C8 witness: after two synonym translations, the term and the definition
\* requests are in flight together
C8_Witness ==
    /\ Len(build.completed) = 2
    /\ calls[TermCall].pc = "awaiting"
    /\ calls[UsageCall].pc = "awaiting"

\* C10: an item whose translation came back empty appears in the card with
\* its own text; an item whose translation succeeded appears translated;
\* each item is decided on its own.
C10_PerItemFallback ==
    build.pc = "done" =>
        LET card == build.ret.val
            shown(c, original) ==
                IF calls[c].result = Ok("") THEN original
                ELSE calls[c].result.val
        IN  /\ card.translation_heading = shown(TermCall, build.term)
            /\ card.translation_usage = shown(UsageCall, build.definition_text)
            /\ build.definition_text =
                  IF build.dictionary.definition.some
                  THEN build.dictionary.definition.val
                  ELSE PlaceholderDefinition
            /\ card.translation_synonyms =
                  IF Join(build.synonyms, ", ") = "" THEN ""
                  ELSE Join([i \in SynonymCalls |-> shown(i, build.synonyms[i])], ", ")
            /\ \A c \in CallIds : calls[c].pc = "done" =>
                  calls[c].result.ok /\
                  (calls[c].result.val = "" \/ ~IsBlank(calls[c].result.val))

\* C10 witness: with no retries, the term translation failed on every mirror
\* while the definition and one of two synonyms were translated
C10_Witness ==
    /\ build.pc = "done"
    /\ build.translate_retries = 0
    /\ build.term = "happy"
    /\ build.ret.val.translation_heading = "happy"
    /\ build.ret.val.translation_usage # build.definition_text
    /\ Len(build.synonyms) = 2
    /\ calls[1].result = Ok("")
    /\ calls[2].result # Ok("")

\* the dictionary lookup fails: transport, status or parse error, no entry,
\* or no meaning of the first entry has a definition
DictionaryLookupFails(resp) ==
    \/ resp.kind # "ok"
    \/ resp.entries = << >>
    \/ \A k \in 1..Len(resp.entries[1].meanings) :
          resp.entries[1].meanings[k].definitions = << >>

\* C12: when the dictionary lookup fails, build still returns a card with
\* the placeholder example, a usage text derived from the placeholder
\* definition, empty pronunciation and part of speech, and the synonyms of
\* the synonym service.
C12_DictionarySoftFailure ==
    (build.pc = "done" /\ DictionaryLookupFails(build.dictionary_resp)) =>
        LET card == build.ret.val
            words == SeqToSet(build.datamuse_res.val)
        IN  /\ build.ret.ok
            /\ card.example.sentence = "This sentence uses the word " \o build.term \o "."
            /\ calls[UsageCall].text = "No definition found for " \o build.term \o "."
            /\ card.translation_usage \in
                  {calls[UsageCall].text}
                  \cup { Tr(TrimEndSlash(calls[UsageCall].cands[k]), calls[UsageCall].text) :
                            k \in 1..Len(calls[UsageCall].cands) }
            /\ card.pronunciation = ""
            /\ card.part_of_speech = ""
            /\ SeqToSet(build.synonyms) = words
            /\ Len(build.synonyms) = Cardinality(words)

\* C12 witness: no meaning of the entry has a definition, the synonym
\* service gave a word, the placeholder definition was translated
C12_Witness ==
    /\ build.pc = "done"
    /\ build.term = "happy"
    /\ build.dictionary_resp.kind = "ok"
    /\ build.dictionary_resp.entries # << >>
    /\ DictionaryLookupFails(build.dictionary_resp)
    /\ build.synonyms = <<"glad">>
    /\ build.ret.val.translation_usage # build.definition_text
    /\ build.ret.val.example.sentence = "This sentence uses the word happy."

\* term occurs in sentence: sentence = prefix, term, suffix
Occurs(term, sentence) ==
    \E i, j \in 0..Len(sentence) : i <= j /\ SubSeq(sentence, i + 1, j) = term

\* C13: the highlight of a card is the term when the term occurs verbatim
\* in the card's example sentence and is empty otherwise; with the
\* placeholder example the highlight is the term.
C13_Highlight ==
    build.pc = "done" =>
        LET example == build.ret.val.example
        IN  /\ example.highlight =
                  IF Occurs(build.term, example.sentence) THEN build.term ELSE ""
            /\ example.sentence = PlaceholderExample => example.highlight = build.term

\* C13 witness: the term occurs inside the dictionary's example
C13_Witness ==
    /\ build.pc = "done"
    /\ build.ret.val.example.sentence = "I am happy today."
    /\ build.term = "happy"
    /\ build.ret.val.example.highlight = "happy"

(***************************************************************************)
(* build_term_tag (main.rs:246-276).                                       *)
(***************************************************************************)
LowerCase == "abcdefghijklmnopqrstuvwxyz"
UpperCase == "ABCDEFGHIJKLMNOPQRSTUVWXYZ"
Digits == "0123456789"

\* the position of a character in a string, 0 when it does not occur
IndexIn(s, ch) ==
    IF \E i \in 1..Len(s) : CharAt(s, i) = ch
    THEN CHOOSE i \in 1..Len(s) : CharAt(s, i) = ch
    ELSE 0

\* char::is_ascii_alphanumeric
IsAsciiAlphanumeric(ch) ==
    IndexIn(LowerCase, ch) > 0 \/ IndexIn(UpperCase, ch) > 0 \/ IndexIn(Digits, ch) > 0

\* char::to_ascii_lowercase
ToAsciiLowercase(ch) ==
    IF IndexIn(UpperCase, ch) > 0 THEN CharAt(LowerCase, IndexIn(UpperCase, ch)) ELSE ch

RECURSIVE SlugLoop(_, _, _, _)
\* the for loop of lines 250-265 from character i on
SlugLoop(term, i, slug, last_was_sep) ==
    IF i > Len(term) THEN slug
    ELSE IF IsAsciiAlphanumeric(CharAt(term, i))
         THEN SlugLoop(term, i + 1, slug \o ToAsciiLowercase(CharAt(term, i)), FALSE)
         ELSE SlugLoop(term, i + 1,
                       IF ~last_was_sep /\ slug # "" THEN slug \o "_" ELSE slug,
                       TRUE)

\* variant: the trailing separator is not removed
build_term_tagKeepTrailing(term) ==
    LET slug == SlugLoop(term, 1, "", FALSE)
    IN  "term:" \o (IF slug = "" THEN "term" ELSE slug)

\* build_term_tag(term)
build_term_tag(term) ==
    LET slug == SlugLoop(term, 1, "", FALSE)
        popped == IF Len(slug) > 0 /\ CharAt(slug, Len(slug)) = "_"
                  THEN SubSeq(slug, 1, Len(slug) - 1) ELSE slug
    IN  "term:" \o (IF popped = "" THEN "term" ELSE popped)

\* the characters of the terms: letters of both cases, a digit, white space,
\* the separator itself and another punctuation mark
TermChars == {"a", "B", "7", " ", "_", "?"}

RECURSIVE StringsUpTo(_, _)
\* the strings over chars of length at most n
StringsUpTo(chars, n) ==
    IF n = 0 THEN {""}
    ELSE StringsUpTo(chars, n - 1)
         \cup { t \o ch : t \in { u \in StringsUpTo(chars, n - 1) : Len(u) = n - 1 },
                          ch \in chars }

InitSlug ==
    /\ calls = [c \in CallIds |-> IdleCall]
    /\ net = {}
    /\ hist = NoHist
    /\ fetches = {}
    /\ build = NoBuild
    /\ \E term \in StringsUpTo(TermChars, MaxTermLen) :
         pure = [op |-> "slug", term |-> term, done |-> FALSE, tag |-> ""]

\* main calls build_term_tag(&card.term)
BuildTermTag ==
    /\ pure.op = "slug"
    /\ ~pure.done
    /\ pure' = [pure EXCEPT !.done = TRUE, !.tag = build_term_tag(pure.term)]
    /\ UNCHANGED <<calls, net, hist, build, fetches>>

NextSlug == BuildTermTag

SpecSlug == InitSlug /\ [][NextSlug]_vars

RECURSIVE AlnumRuns(_, _, _)
\* the maximal runs of ASCII letters and digits of a term, in lower case
AlnumRuns(term, i, run) ==
    IF i > Len(term) THEN (IF run = "" THEN << >> ELSE <<run>>)
    ELSE LET ch == CharAt(term, i)
             lower == IF \E k \in 1..26 : CharAt(UpperCase, k) = ch
                      THEN CharAt(LowerCase, CHOOSE k \in 1..26 : CharAt(UpperCase, k) = ch)
                      ELSE ch
         IN  IF Contains(LowerCase \o UpperCase \o Digits, ch)
             THEN AlnumRuns(term, i + 1, run \o lower)
             ELSE (IF run = "" THEN << >> ELSE <<run>>) \o AlnumRuns(term, i + 1, "")

\* C14: the tag is "term:" and a non-empty slug of lower-case letters,
\* digits and underscores, with no underscore at either end and no two in a
\* row: the alphanumeric runs of the term in lower case, joined by one
\* underscore each; "term:term" when the term has no such run.
C14_TermTagSlug ==
    (pure.op = "slug" /\ pure.done) =>
        LET tag == pure.tag
            slug == SubSeq(tag, 6, Len(tag))
            runs == AlnumRuns(pure.term, 1, "")
        IN  /\ SubSeq(tag, 1, 5) = "term:"
            /\ Len(slug) > 0
            /\ \A i \in 1..Len(slug) :
                  Contains(LowerCase \o Digits \o "_", CharAt(slug, i))
            /\ CharAt(slug, 1) # "_"
            /\ CharAt(slug, Len(slug)) # "_"
            /\ \A i \in 1..(Len(slug) - 1) :
                  ~(CharAt(slug, i) = "_" /\ CharAt(slug, i + 1) = "_")
            /\ slug = IF runs = << >> THEN "term" ELSE Join(runs, "_")

\* C14 witness: a run of punctuation and white space between two letters,
\* and a trailing separator
C14_Witness ==
    /\ pure.op = "slug" /\ pure.done
    /\ pure.term = "B? a"
    /\ pure.tag = "term:b_a"

(***************************************************************************)
(* config::load (config.rs:23-63).                                         *)
(***************************************************************************)
RECURSIVE Trim(_)
\* str::trim
Trim(s) ==
    IF Len(s) > 0 /\ IsWhitespace(SubSeq(s, 1, 1)) THEN Trim(SubSeq(s, 2, Len(s)))
    ELSE IF Len(s) > 0 /\ IsWhitespace(SubSeq(s, Len(s), Len(s)))
         THEN Trim(SubSeq(s, 1, Len(s) - 1))
         ELSE s

RECURSIVE TrimNonEmpty(_)
\* .into_iter().map(|x| x.trim().to_string()).filter(|x| !x.is_empty()).collect()
TrimNonEmpty(list) ==
    IF list = << >> THEN << >>
    ELSE (IF Trim(Head(list)) = "" THEN << >> ELSE <<Trim(Head(list))>>)
         \o TrimNonEmpty(Tail(list))

\* AppConfig::default(), for the fields that load rewrites
DefaultAppConfig ==
    [extra_tags |-> << >>, translation_bases |-> << >>, legacy_translation_base |-> None]

\* variant: the legacy base is pushed even when the list already holds it
loadAlwaysPush(file) ==
    IF file.kind = "missing" THEN Ok(DefaultAppConfig)
    ELSE IF file.kind \in {"unreadable", "malformed"} THEN Err
    ELSE LET bases == TrimNonEmpty(file.config.translation_bases)
             legacy == file.config.legacy_translation_base
         IN  Ok([extra_tags |-> TrimNonEmpty(file.config.extra_tags),
                 translation_bases |->
                     IF legacy.some /\ Trim(legacy.val) # ""
                     THEN Append(bases, Trim(legacy.val)) ELSE bases,
                 legacy_translation_base |->
                     IF legacy.some /\ Trim(legacy.val) # ""
                     THEN Some(Trim(legacy.val)) ELSE None])

\* load(path)
load(file) ==
    IF file.kind = "missing" THEN Ok(DefaultAppConfig)
    ELSE IF file.kind \in {"unreadable", "malformed"} THEN Err
    ELSE LET bases == TrimNonEmpty(file.config.translation_bases)
             legacy == file.config.legacy_translation_base
         IN  Ok([extra_tags |-> TrimNonEmpty(file.config.extra_tags),
                 translation_bases |->
                     IF legacy.some /\ Trim(legacy.val) # ""
                        /\ ~(\E i \in 1..Len(bases) : bases[i] = Trim(legacy.val))
                     THEN Append(bases, Trim(legacy.val)) ELSE bases,
                 legacy_translation_base |->
                     IF legacy.some /\ Trim(legacy.val) # ""
                     THEN Some(Trim(legacy.val)) ELSE None])

\* the strings of a config file: blank, clean, padded
ConfigStrings == {" ", "a", " a ", "b"}

\* what the path can hold: nothing, a file that cannot be read, a file that is
\* not the expected TOML, or a file that deserialises into an AppConfig
ConfigFiles ==
    { [kind |-> k, config |-> DefaultAppConfig] :
        k \in {"missing", "unreadable", "malformed"} }
    \cup { [kind |-> "ok",
            config |-> [extra_tags |-> tags, translation_bases |-> bases,
                        legacy_translation_base |-> legacy]] :
            tags \in SeqsUpTo(ConfigStrings, MaxConfigList),
            bases \in SeqsUpTo(ConfigStrings, MaxConfigList),
            legacy \in {None} \cup { Some(b) : b \in ConfigStrings } }

InitConfig ==
    /\ calls = [c \in CallIds |-> IdleCall]
    /\ net = {}
    /\ hist = NoHist
    /\ fetches = {}
    /\ build = NoBuild
    /\ \E file \in ConfigFiles :
         pure = [op |-> "config", file |-> file, done |-> FALSE, ret |-> Err]

\* main calls config::load(&path)
Load ==
    /\ pure.op = "config"
    /\ ~pure.done
    /\ pure' = [pure EXCEPT !.done = TRUE, !.ret = load(pure.file)]
    /\ UNCHANGED <<calls, net, hist, build, fetches>>

NextConfig == Load

SpecConfig == InitConfig /\ [][NextConfig]_vars

\* a list entry that load must not leave: blank, or with white space around it
Unclean(s) ==
    \/ \A i \in 1..Len(s) : IsWhitespace(SubSeq(s, i, i))
    \/ IsWhitespace(SubSeq(s, 1, 1))
    \/ IsWhitespace(SubSeq(s, Len(s), Len(s)))

\* the number of entries of a list with a non-whitespace character
NonBlankCount(list) == Cardinality({ i \in 1..Len(list) : ~IsBlank(list[i]) })

\* C15: in a loaded config no entry of extra_tags or translation_bases is
\* blank or has white space around it; a non-blank legacy translation_base,
\* trimmed, is a member of translation_bases, appended as the last entry when
\* no entry of the file equals it after trimming and not added otherwise.
C15_ConfigNormalised ==
    (pure.op = "config" /\ pure.done /\ pure.file.kind = "ok") =>
        /\ pure.ret.ok
        /\ LET raw == pure.file.config
               out == pure.ret.val
               legacy == raw.legacy_translation_base
               n == NonBlankCount(raw.translation_bases)
               present == \E i \in 1..Len(raw.translation_bases) :
                             Trim(raw.translation_bases[i]) = Trim(legacy.val)
           IN  /\ \A i \in 1..Len(out.extra_tags) : ~Unclean(out.extra_tags[i])
               /\ \A i \in 1..Len(out.translation_bases) :
                     ~Unclean(out.translation_bases[i])
               /\ (legacy.some /\ ~IsBlank(legacy.val)) =>
                     /\ \E i \in 1..Len(out.translation_bases) :
                           out.translation_bases[i] = Trim(legacy.val)
                     /\ present => Len(out.translation_bases) = n
                     /\ ~present =>
                           /\ Len(out.translation_bases) = n + 1
                           /\ out.translation_bases[n + 1] = Trim(legacy.val)
                     /\ n = 0 => out.translation_bases = <<Trim(legacy.val)>>
               /\ ~(legacy.some /\ ~IsBlank(legacy.val)) =>
                     Len(out.translation_bases) = n

\* C15 witness: the padded legacy base is already in the list once trimmed
C15_Witness ==
    /\ pure.op = "config" /\ pure.done /\ pure.file.kind = "ok"
    /\ pure.file.config.translation_bases = <<" ", " a ">>
    /\ pure.file.config.legacy_translation_base = Some("a")
    /\ pure.ret.val.translation_bases = <<"a">>

\* the call has left mirror i for the next one, or has returned Ok("") after
\* the last one
MovedOn(i) ==
    IF i < Len(Solo.cands) THEN hist.sentTo[i + 1] >= 1
    ELSE Solo.pc = "done" /\ Solo.result = Ok("")

\* C16: a mirror whose every answer is a status other than 429 or a
\* transport failure gets exactly retries + 1 requests with a sleep before
\* each retry, translate_with_base returns an error for it, and
\* translate_text goes on to the next mirror.
C16_ErrorMirror ==
    \A i \in DOMAIN hist.wb :
        (Finished(i) /\ hist.allErr[i]) =>
            /\ hist.sentTo[i] = Solo.retries + 1
            /\ hist.answered[i] = Solo.retries + 1
            /\ Len(hist.slept[i]) = Solo.retries
            /\ hist.wb[i] = Err
            /\ MovedOn(i)

\* C16 witness: three failures on the first mirror, with two retries
C16_Witness ==
    /\ Solo.retries = 2
    /\ Len(hist.wb) >= 2
    /\ Finished(1) /\ hist.allErr[1]
    /\ hist.sentTo[1] = 3
    /\ Len(hist.slept[1]) = 2
    /\ hist.wb[1] = Err
    /\ hist.sentTo[2] >= 1

RECURSIVE SumTo(_, _)
\* f[1] + .. + f[n]
SumTo(f, n) == IF n = 0 THEN 0 ELSE f[n] + SumTo(f, n - 1)

\* no mirror has got more than retries + 1 requests, nor all of them more
\* than |mirrors| * (retries + 1)
RequestsBounded ==
    /\ \A i \in DOMAIN hist.sentTo : hist.sentTo[i] <= Solo.retries + 1
    /\ SumTo(hist.sentTo, Len(hist.sentTo)) <= Len(Solo.cands) * (Solo.retries + 1)
    /\ Solo.pc \in {"awaiting", "sleeping"} => Solo.attempt <= Solo.retries

\* C19: when every request is answered and every sleep ends, translate_text
\* returns, and at no time has a mirror got more than retries + 1 requests,
\* whatever the mix of 429, other statuses and transport failures; the total
\* is at most |mirrors| * (retries + 1).
C19_BoundedAndTerminates == []RequestsBounded /\ <>(Solo.pc = "done")

\* C19 witness: a mirror that answered both 429 and other failures got
\* retries + 1 requests, and the call has returned
C19_Witness ==
    /\ Solo.pc = "done"
    /\ Solo.retries = 2
    /\ Len(hist.wb) >= 2
    /\ Finished(1) /\ hist.last[1] = "failure"
    /\ ~hist.all429[1] /\ ~hist.allErr[1]
    /\ hist.sentTo[1] = 3
    /\ hist.sentTo[2] = 3

\* the last answer of mirror i ended translate_with_base: no sleep followed
\* it and no request was sent to the mirror after it
EndedAtOnce(i) ==
    /\ Finished(i)
    /\ hist.sentTo[i] = hist.answered[i]
    /\ Len(hist.slept[i]) = hist.answered[i] - 1

\* C17: a 2xx answer whose body does not parse ends translate_with_base with
\* an error whatever retries remain: no sleep, no further request to that
\* mirror, and translate_text goes on to the next mirror.
C17_ParseErrorNotRetried ==
    \A i \in DOMAIN hist.last :
        hist.last[i] = "parse_error" =>
            /\ EndedAtOnce(i)
            /\ hist.wb[i] = Err
            /\ MovedOn(i)

\* C17 witness: the first answer does not parse while two retries remain
C17_Witness ==
    /\ Solo.retries = 2
    /\ Len(hist.wb) >= 2
    /\ hist.last[1] = "parse_error"
    /\ hist.sentTo[1] = 1
    /\ hist.slept[1] = << >>
    /\ hist.wb[1] = Err
    /\ hist.sentTo[2] >= 1

\* C18: a 2xx answer with a valid payload ends translate_with_base with the
\* parsed translation; an empty translation is not retried on that mirror,
\* and translate_text goes on to the next mirror.
C18_ValidPayloadReturned ==
    \A i \in DOMAIN hist.last :
        hist.last[i] = "ok" =>
            /\ EndedAtOnce(i)
            /\ hist.wb[i].ok
            /\ hist.wb[i].val \in {"", " ", Tr(TrimEndSlash(Solo.cands[i]), Solo.text)}
            /\ hist.wb[i].val = "" => MovedOn(i)

\* C18 witness: the first mirror answers an empty translation at once while
\* two retries remain, and the second mirror is asked
C18_Witness ==
    /\ Solo.retries = 2
    /\ Len(hist.wb) >= 2
    /\ hist.last[1] = "ok"
    /\ hist.wb[1] = Ok("")
    /\ hist.sentTo[1] = 1
    /\ hist.slept[1] = << >>
    /\ hist.sentTo[2] >= 1

\* C20: on one mirror the first sleep lasts max(backoff, 200) ms and each
\* later one 1.5 times the one before, rounded half up; no sleep is shorter
\* than 200 ms or shorter than the one before.
C20_BackoffSequence ==
    \A i \in DOMAIN hist.slept :
        LET d == hist.slept[i]
        IN  /\ Len(d) >= 1 =>
                  d[1] = IF Solo.backoff >= 200 THEN Solo.backoff ELSE 200
            /\ \A k \in 1..Len(d) : d[k] >= 200
            /\ \A k \in 1..(Len(d) - 1) :
                  /\ 2 * d[k + 1] - 3 * d[k] \in {0, 1}
                  /\ d[k + 1] >= d[k]

\* C20 witness: 501 ms, then 751.5 rounded up to 752 ms
C20_Witness ==
    /\ Solo.backoff = 501
    /\ Len(hist.slept) >= 1
    /\ hist.slept[1] = <<501, 752>>

(***************************************************************************)
(* fetch_dictionary_entry on its own (143-189), with arbitrary entries.    *)
(***************************************************************************)
\* the definitions of the answers: without text, with text and an example,
\* with text only
DefinitionPool ==
    { Definition("", None, << >>),
      Definition("feeling joy", Some("I am happy today."), << >>),
      Definition("lucky", None, << >>) }

MeaningPool ==
    { Meaning(Some("adjective"), d, << >>) :
        d \in SeqsUpTo(DefinitionPool, MaxDefinitions) }

\* a second entry of an answer, which the fetch never reads
OtherEntry ==
    DictionaryEntry(None, << >>,
        << Meaning(Some("noun"), << Definition("other", None, << >>) >>, << >>) >>)

EntryResponses ==
    FailedResponses
    \cup { [kind |-> "ok", entries |-> << >>, words |-> << >>] }
    \cup { [kind |-> "ok", entries |-> <<DictionaryEntry(None, << >>, m)>> \o rest,
            words |-> << >>] :
            m \in SeqsUpTo(MeaningPool, MaxMeanings),
            rest \in { << >>, <<OtherEntry>> } }

InitDictionary ==
    /\ calls = [c \in CallIds |-> IdleCall]
    /\ net = {}
    /\ hist = NoHist
    /\ fetches = {}
    /\ build = NoBuild
    /\ \E resp \in EntryResponses :
         pure = [op |-> "dictionary", resp |-> resp, done |-> FALSE,
                 ret |-> [ok |-> FALSE, val |-> DefaultDictionaryData]]

\* the dictionary service has answered and fetch_dictionary_entry returns
FetchDictionaryEntry ==
    /\ pure.op = "dictionary"
    /\ ~pure.done
    /\ pure' = [pure EXCEPT !.done = TRUE, !.ret = fetch_dictionary_entry(pure.resp)]
    /\ UNCHANGED <<calls, net, hist, build, fetches>>

NextDictionary == FetchDictionaryEntry

SpecDictionary == InitDictionary /\ [][NextDictionary]_vars

\* the meanings of the first entry of the answer
FirstEntryMeanings == pure.resp.entries[1].meanings

\* the positions of the definitions of a meaning whose text is not empty
WithText(meaning) ==
    { i \in 1..Len(meaning.definitions) : meaning.definitions[i].definition # "" }

\* the least element of a non-empty set of numbers
Least(S) == CHOOSE k \in S : \A j \in S : k <= j

\* C21 as stated: the fetch selects the first meaning of the first entry with
\* a definition whose text is not empty and fails when there is none; a
\* successful fetch carries the first non-empty text of that meaning.
C21_SelectsMeaningWithText ==
    (pure.op = "dictionary" /\ pure.done
        /\ pure.resp.kind = "ok" /\ pure.resp.entries # << >>) =>
        LET Q == { k \in 1..Len(FirstEntryMeanings) :
                     WithText(FirstEntryMeanings[k]) # {} }
        IN  /\ pure.ret.ok <=> Q # {}
            /\ pure.ret.ok =>
                  LET m == FirstEntryMeanings[Least(Q)]
                  IN  pure.ret.val.definition =
                          Some(m.definitions[Least(WithText(m))].definition)

\* C21 amended: the fetch selects the first meaning of the first entry whose
\* list of definitions is not empty and fails when every list is empty; the
\* definition of a successful fetch is the first non-empty text of that
\* meaning and is absent when all its texts are empty.
C21_SelectsMeaningWithDefinitions ==
    (pure.op = "dictionary" /\ pure.done) =>
        IF pure.resp.kind # "ok" \/ pure.resp.entries = << >> THEN ~pure.ret.ok
        ELSE
          LET K == { k \in 1..Len(FirstEntryMeanings) :
                       FirstEntryMeanings[k].definitions # << >> }
          IN  /\ pure.ret.ok <=> K # {}
              /\ pure.ret.ok =>
                    LET m == FirstEntryMeanings[Least(K)]
                        E == { i \in 1..Len(m.definitions) : m.definitions[i].example.some }
                    IN  /\ pure.ret.val.definition =
                              IF WithText(m) = {} THEN None
                              ELSE Some(m.definitions[Least(WithText(m))].definition)
                        /\ pure.ret.val.example =
                              IF E = {} THEN None ELSE m.definitions[Least(E)].example

\* C21 witness: the first meaning has only a definition without text, the
\* second one has a text; the fetch succeeds without a definition
C21_Witness ==
    /\ pure.op = "dictionary" /\ pure.done
    /\ pure.resp.kind = "ok" /\ pure.resp.entries # << >>
    /\ Len(FirstEntryMeanings) = 2
    /\ FirstEntryMeanings[1].definitions = << Definition("", None, << >>) >>
    /\ FirstEntryMeanings[2].definitions = << Definition("lucky", None, << >>) >>
    /\ pure.ret.ok
    /\ pure.ret.val.definition = None

\* a text of white space only, the empty text included
WhitespaceOnly(text) ==
    \A i \in 1..Len(text) : SubSeq(text, i, i) \in {" ", "\t", "\n"}

\* C22: translate_text with a blank text returns Ok("") at its first poll
\* and sends no request, whatever the mirror list and the retries: the call
\* never waits for an answer or sleeps, and no mirror is contacted.
C22_BlankTextShortCircuit ==
    WhitespaceOnly(Solo.text) =>
        /\ net = {}
        /\ Solo.pc \in {"called", "done"}
        /\ hist.urls = << >>
        /\ \A i \in DOMAIN hist.sentTo : hist.sentTo[i] = 0
        /\ Solo.pc = "done" => Solo.result = Ok("")

\* C22 witness: a whitespace-only text, two mirrors, two retries
C22_Witness ==
    /\ Solo.text = " \t\n"
    /\ Len(Solo.bases) = 2
    /\ Solo.retries = 2
    /\ Solo.pc = "done"
    /\ Solo.result = Ok("")
    /\ net = {}

RECURSIVE DelayAfter(_, _)
\* the delay after n retries on one mirror
DelayAfter(backoff, n) ==
    IF n = 0 THEN (IF backoff >= 200 THEN backoff ELSE 200)
    ELSE LET d == DelayAfter(backoff, n - 1)
         IN  IF (3 * d) % 2 = 0 THEN (3 * d) \div 2 ELSE (3 * d + 1) \div 2

\* the retry state of the call is that of its current mirror alone, and the
\* sleeps of a mirror lie between its requests
RetryStatePerMirror ==
    /\ Solo.pc \in {"awaiting", "sleeping"} =>
          LET i == Solo.idx
              retried == IF Solo.pc = "sleeping" THEN Len(hist.slept[i]) - 1
                         ELSE Len(hist.slept[i])
          IN  /\ Solo.attempt = retried
              /\ Solo.delay = DelayAfter(Solo.backoff, retried)
              /\ hist.sentTo[i] = retried + 1
              /\ ~Finished(i)
              /\ hist.sentTo[i] = 1 =>
                    /\ Solo.attempt = 0
                    /\ Solo.delay = DelayAfter(Solo.backoff, 0)
    /\ \A i \in DOMAIN hist.slept :
          /\ Finished(i) => Len(hist.slept[i]) = hist.sentTo[i] - 1
          /\ hist.sentTo[i] = 0 => hist.slept[i] = << >>
          /\ Len(hist.slept[i]) >= 1 =>
                hist.slept[i][1] = DelayAfter(Solo.backoff, 0)

\* a step taken from a sleep sends a request to the mirror slept on, and a
\* step that moves to another mirror or returns is not taken from a sleep
SleepThenSameMirror ==
    /\ Solo.pc = "sleeping" =>
          /\ Solo'.pc = "awaiting"
          /\ Solo'.idx = Solo.idx
          /\ hist'.sentTo[Solo.idx] = hist.sentTo[Solo.idx] + 1
          /\ \E r \in net' \ net : r.idx = Solo.idx
    /\ (Solo.pc = "awaiting" /\ Solo'.pc = "awaiting" /\ Solo'.idx # Solo.idx) =>
          /\ hist'.slept = hist.slept
          /\ Solo'.attempt = 0

\* C23: the attempt counter and the delay are those of the current mirror
\* alone (0 and max(backoff, 200) at its first request, whatever the retries
\* spent on earlier mirrors); every sleep is followed at once by a request
\* to the same mirror; no sleep follows a mirror's last attempt or precedes
\* the next mirror's first request.
C23_RetryStatePerMirror == []RetryStatePerMirror /\ [][SleepThenSameMirror]_vars

\* C23 witness: two retries were spent on the first mirror, and the first
\* sleep on the second mirror lasts the initial delay again
C23_Witness ==
    /\ Solo.backoff = 501
    /\ Solo.pc = "sleeping"
    /\ Solo.idx = 2
    /\ Solo.attempt = 0
    /\ hist.slept[1] = <<501, 752>>
    /\ hist.slept[2] = <<501>>

====
